---- MODULE Spec2Model ----
(***************************************************************************)
(* State-machine model of the MCP calendar server.                         *)
(*                                                                         *)
(* The repository holds two servers with the same JSON-RPC router:         *)
(*   - the local variant  (src/unnamed/part_000): events kept in memory;   *)
(*   - the remote variant (src/server.js): Google Calendar behind OAuth.   *)
(* The variable `variant` says which of the two processes is running.      *)
(*                                                                         *)
(* JavaScript objects are functions from property names to values; a       *)
(* property whose value is `undefined` (and so is dropped by JSON) is a    *)
(* name outside the DOMAIN.  Titles, descriptions and queries are          *)
(* sequences of characters; JSON-RPC ids are written as their JSON text.   *)
(***************************************************************************)
EXTENDS Integers, Sequences, FiniteSets, TLC

VARIABLES variant,     \* "local" or "remote": which server is running
          events,      \* part_000:13   let events = []
          issued,      \* number of ids uuidv4() has handed out so far
          now,         \* the system clock read by new Date()
          userTokens,  \* server.js:39  let userTokens = {}
          req,         \* body of the last POST /mcp
          res,         \* the JSON answer to it
          calls,       \* functions the last request entered
          returnedIds, \* history: the ids create_event has returned
          deleted,     \* history: the ids delete_event has removed
          pristine,    \* history: id -> the event create_event returned, for the
                       \* ids no update_event or delete_event has succeeded on since
          pending,     \* client -> the handler of its request in flight
          calendar,    \* the events Google Calendar holds, by id
          handshake    \* history: which of initialize and tools/list have been
                       \* answered so far

vars == <<variant, events, issued, now, userTokens, req, res, calls,
          returnedIds, deleted, pristine, pending, calendar, handshake>>

----------------------------------------------------------------------------
(* Bounds of the model *)

\* ids uuidv4() may hand out, and so events the store may come to hold
MaxUuids == 2

\* readings of the clock after the first
MaxClock == 1

----------------------------------------------------------------------------
(* JavaScript values *)

EmptyObj == [k \in {} |-> 0]

Has(o, k) == k \in DOMAIN o

Opt(k, present, v) == IF present THEN k :> v ELSE EmptyObj

\* JSON text of the falsy ids: null, 0 and ""
FalsyIds == {"null", "0", "\"\""}

OrNull(id) == IF id \in FalsyIds THEN "null" ELSE id

Min(a, b) == IF a < b THEN a ELSE b

\* Array.prototype.slice(0, n) for n >= 0
Slice(s, n) == SubSeq(s, 1, Min(n, Len(s)))

\* Array.prototype.findIndex, 1-based; 0 stands for -1
RECURSIVE FindFrom(_, _, _)
FindFrom(s, id, i) ==
    IF i > Len(s) THEN 0
    ELSE IF s[i].id = id THEN i
         ELSE FindFrom(s, id, i + 1)

\* variant of findIndex: the first event is taken whatever its id
findIndexFirst(s, id) == IF Len(s) > 0 THEN 1 ELSE 0

findIndex(s, id) == FindFrom(s, id, 1)

\* variant of Splice: slice() in place of splice(), the array is left as it was
SpliceKeeps(s, i) == s

\* variant of Splice: splice(i) without a count, which removes everything
\* from the i-th element on
SpliceToEnd(s, i) == SubSeq(s, 1, i - 1)

\* Array.prototype.splice(i, 1): the array without its i-th element
Splice(s, i) == SubSeq(s, 1, i - 1) \o SubSeq(s, i + 1, Len(s))

----------------------------------------------------------------------------
(* Dates.  new Date(s).getTime() in hours since 2024-01-01T00:00:00Z;      *)
(* IsDate(s) is false where new Date(s) is an Invalid Date.                *)

IsDate(s) ==
    s \in {"2024-01-15", "2024-01-15T00:00:00Z", "2024-01-15T10:00:00Z",
           "2024-01-20", "2024-01-20T09:00:00Z"}

DateParse(s) ==
    CASE s = "2024-01-15" -> 336
      [] s = "2024-01-15T00:00:00Z" -> 336
      [] s = "2024-01-15T10:00:00Z" -> 346
      [] s = "2024-01-20" -> 456
      [] s = "2024-01-20T09:00:00Z" -> 465

\* new Date(event.start_time): Invalid Date when start_time is undefined
StartInstant(e) == IF Has(e, "start_time") THEN e.start_time ELSE "undefined"

\* a >= b and a <= b on Date objects: false when either is Invalid (NaN)
DateGE(a, b) == IsDate(a) /\ IsDate(b) /\ DateParse(a) >= DateParse(b)

DateLE(a, b) == IsDate(a) /\ IsDate(b) /\ DateParse(a) <= DateParse(b)

\* a string is truthy unless it is empty
TruthyStr(o, k) == Has(o, k) /\ o[k] # ""

\* String.prototype.toLowerCase over the characters in use
LowerChar(c) ==
    CASE c = "S" -> "s"
      [] c = "T" -> "t"
      [] c = "M" -> "m"
      [] c = "W" -> "w"
      [] OTHER -> c

toLowerCase(s) == [i \in 1..Len(s) |-> LowerChar(s[i])]

\* String.prototype.includes
includes(s, q) ==
    \E i \in 0..(Len(s) - Len(q)) : SubSeq(s, i + 1, i + Len(q)) = q

----------------------------------------------------------------------------
(* Outcome of a tool: it returned `value`, or threw an Error whose message *)
(* is `value`; `events` and `issued` are the store and the id generator    *)
(* as the tool leaves them.                                                *)

Return(v, evs, n) ==
    [threw |-> FALSE, value |-> v, events |-> evs, issued |-> n, calls |-> {}]

Throw(m, evs, n) ==
    [threw |-> TRUE, value |-> m, events |-> evs, issued |-> n, calls |-> {}]

\* the outcome of a call of function f
Enter(f, outcome) == [outcome EXCEPT !.calls = @ \cup {f}]

\* TypeError raised by reading a property of undefined
TypeError(prop) == <<"Cannot read properties of undefined (reading '", prop, "')">>

\* `${x}` of a property that may be undefined
Text(o, k) == IF Has(o, k) THEN o[k] ELSE "undefined"

Content(prefix, v) == <<[type |-> "text", text |-> <<prefix, v>>]>>

DefaultLimit == 10

\* args.limit || 10
LimitOf(args) == IF Has(args, "limit") /\ args.limit # 0 THEN args.limit ELSE DefaultLimit

\* variant of uuidv4: every call returns the same id
uuidv4Same(n) == 1

\* uuidv4(): ids are named by their order of issue, the n-th call returning
\* the n-th id; no two calls return the same id
uuidv4(n) == n + 1

----------------------------------------------------------------------------
(* Tool implementations of the local variant (part_000:274-404) *)

createEvent(hasArgs, args, evs, n, t) ==
    IF ~hasArgs THEN Throw(TypeError("title"), evs, n + 1)
    ELSE LET event ==
                 ("id" :> uuidv4(n))
              @@ Opt("title", Has(args, "title"), Text(args, "title"))
              @@ ("description" :>
                     IF Has(args, "description") /\ args.description # <<>>
                     THEN args.description ELSE <<>>)
              @@ Opt("start_time", Has(args, "start_time"), Text(args, "start_time"))
              @@ Opt("end_time", Has(args, "end_time"), Text(args, "end_time"))
              @@ ("location" :> IF TruthyStr(args, "location") THEN args.location ELSE "")
              @@ ("attendees" :> IF Has(args, "attendees") THEN args.attendees ELSE <<>>)
              @@ ("created_at" :> t)
         IN Return([content |-> Content("Event created successfully with ID: ", event.id),
                    event |-> event],
                   Append(evs, event), n + 1)

\* variant of NotBefore: the comparison is turned around
NotBeforeReversed(e, startDate) == DateLE(StartInstant(e), startDate)

\* part_000:302-304  new Date(event.start_time) >= startDate
NotBefore(e, startDate) == DateGE(StartInstant(e), startDate)

\* part_000:309-311  new Date(event.start_time) <= endDate
NotAfter(e, endDate) == DateLE(StartInstant(e), endDate)

listEvents(hasArgs, args, evs, n) ==
    IF ~hasArgs THEN Throw(TypeError("start_date"), evs, n)
    ELSE LET AfterStart(e) == NotBefore(e, args.start_date)
             BeforeEnd(e) == NotAfter(e, args.end_date)
             byStart == IF TruthyStr(args, "start_date")
                        THEN SelectSeq(evs, AfterStart) ELSE evs
             filteredEvents == IF TruthyStr(args, "end_date")
                               THEN SelectSeq(byStart, BeforeEnd) ELSE byStart
             limitedEvents == Slice(filteredEvents, LimitOf(args))
         IN Return([content |-> Content("Found events: ", Len(limitedEvents)),
                    events |-> limitedEvents],
                   evs, n)

\* variant of getEvent: the event is taken out of the array with
\* events.splice(i, 1)[0]
getEventSplices(hasArgs, args, evs, n) ==
    IF ~hasArgs THEN Throw(TypeError("event_id"), evs, n)
    ELSE LET i == IF Has(args, "event_id") THEN findIndex(evs, args.event_id) ELSE 0
         IN IF i = 0 THEN Throw(<<"Event not found: ", Text(args, "event_id")>>, evs, n)
            ELSE Return([content |-> Content("Event details for: ", Text(evs[i], "title")),
                         event |-> evs[i]],
                        Splice(evs, i), n)

getEvent(hasArgs, args, evs, n) ==
    IF ~hasArgs THEN Throw(TypeError("event_id"), evs, n)
    ELSE LET i == IF Has(args, "event_id") THEN findIndex(evs, args.event_id) ELSE 0
         IN IF i = 0 THEN Throw(<<"Event not found: ", Text(args, "event_id")>>, evs, n)
            ELSE Return([content |-> Content("Event details for: ", Text(evs[i], "title")),
                         event |-> evs[i]],
                        evs, n)

\* variant of Overwrite: the event is rebuilt from the request, so that the
\* fields the request leaves out are lost
OverwriteRebuilds(event, args) ==
    LET fields == {"title", "description", "start_time", "end_time", "location", "attendees"}
        given == fields \cap DOMAIN args
        kept == {"id", "created_at"} \cap DOMAIN event
    IN [k \in kept \cup given |-> IF k \in given THEN args[k] ELSE event[k]]

\* variant of Overwrite: `if (args.f) event.f = args.f`, which skips the
\* empty string (an empty array is truthy)
OverwriteTruthy(event, args) ==
    LET fields == {"title", "description", "start_time", "end_time", "location", "attendees"}
        given == {k \in fields \cap DOMAIN args :
                    IF k \in {"title", "description"} THEN args[k] # <<>>
                    ELSE IF k = "attendees" THEN TRUE
                    ELSE args[k] # ""}
    IN [k \in DOMAIN event \cup given |-> IF k \in given THEN args[k] ELSE event[k]]

\* the six `if (args.f !== undefined) event.f = args.f` lines
Overwrite(event, args) ==
    LET fields == {"title", "description", "start_time", "end_time", "location", "attendees"}
        given == fields \cap DOMAIN args
    IN [k \in DOMAIN event \cup given |-> IF k \in given THEN args[k] ELSE event[k]]

\* variant of updateEvent: `event.updated_at = new Date().toISOString()` is
\* left out
updateEventUnstamped(hasArgs, args, evs, n, t) ==
    IF ~hasArgs THEN Throw(TypeError("event_id"), evs, n)
    ELSE LET eventIndex == IF Has(args, "event_id") THEN findIndex(evs, args.event_id) ELSE 0
         IN IF eventIndex = 0
            THEN Throw(<<"Event not found: ", Text(args, "event_id")>>, evs, n)
            ELSE LET event == Overwrite(evs[eventIndex], args)
                 IN Return([content |-> Content("Event updated successfully: ",
                                                Text(event, "title")),
                            event |-> event],
                           [evs EXCEPT ![eventIndex] = event], n)

updateEvent(hasArgs, args, evs, n, t) ==
    IF ~hasArgs THEN Throw(TypeError("event_id"), evs, n)
    ELSE LET eventIndex == IF Has(args, "event_id") THEN findIndex(evs, args.event_id) ELSE 0
         IN IF eventIndex = 0
            THEN Throw(<<"Event not found: ", Text(args, "event_id")>>, evs, n)
            ELSE LET event == ("updated_at" :> t) @@ Overwrite(evs[eventIndex], args)
                 IN Return([content |-> Content("Event updated successfully: ",
                                                Text(event, "title")),
                            event |-> event],
                           [evs EXCEPT ![eventIndex] = event], n)

\* variant of deleteEvent: the `eventIndex === -1` test is left out, so that
\* an unknown id reaches splice(-1, 1), which removes the last event
deleteEventUnchecked(hasArgs, args, evs, n) ==
    IF ~hasArgs THEN Throw(TypeError("event_id"), evs, n)
    ELSE LET eventIndex == IF Has(args, "event_id") THEN findIndex(evs, args.event_id) ELSE 0
             at == IF eventIndex = 0 THEN Len(evs) ELSE eventIndex
         IN IF at = 0
            THEN Throw(TypeError("title"), evs, n)
            ELSE Return([content |-> Content("Event deleted successfully: ",
                                             Text(evs[at], "title")),
                         deleted_event_id |-> Text(args, "event_id")],
                        Splice(evs, at), n)

\* variant of deleteEvent: the confirmation text is built from
\* deletedEvent.title.toUpperCase(), which throws, after the splice, when
\* the event has no title
deleteEventThrowsLate(hasArgs, args, evs, n) ==
    IF ~hasArgs THEN Throw(TypeError("event_id"), evs, n)
    ELSE LET eventIndex == IF Has(args, "event_id") THEN findIndex(evs, args.event_id) ELSE 0
         IN IF eventIndex = 0
            THEN Throw(<<"Event not found: ", Text(args, "event_id")>>, evs, n)
            ELSE IF ~Has(evs[eventIndex], "title")
            THEN Throw(TypeError("toUpperCase"), Splice(evs, eventIndex), n)
            ELSE Return([content |-> Content("Event deleted successfully: ",
                                             evs[eventIndex].title),
                         deleted_event_id |-> args.event_id],
                        Splice(evs, eventIndex), n)

deleteEvent(hasArgs, args, evs, n) ==
    IF ~hasArgs THEN Throw(TypeError("event_id"), evs, n)
    ELSE LET eventIndex == IF Has(args, "event_id") THEN findIndex(evs, args.event_id) ELSE 0
         IN IF eventIndex = 0
            THEN Throw(<<"Event not found: ", Text(args, "event_id")>>, evs, n)
            ELSE Return([content |-> Content("Event deleted successfully: ",
                                             Text(evs[eventIndex], "title")),
                         deleted_event_id |-> args.event_id],
                        Splice(evs, eventIndex), n)

searchEvents(hasArgs, args, evs, n) ==
    IF ~hasArgs THEN Throw(TypeError("query"), evs, n)
    ELSE IF ~Has(args, "query") THEN Throw(TypeError("toLowerCase"), evs, n)
    ELSE IF \E i \in 1..Len(evs) : ~Has(evs[i], "title")
    THEN Throw(TypeError("toLowerCase"), evs, n)
    ELSE LET query == toLowerCase(args.query)
             Matches(e) == \/ includes(toLowerCase(e.title), query)
                           \/ includes(toLowerCase(e.description), query)
             matchedEvents == Slice(SelectSeq(evs, Matches), LimitOf(args))
         IN Return([content |-> Content("Found events matching: ", args.query),
                    events |-> matchedEvents],
                   evs, n)

\* variant of handleToolCall: `default: return {}`, an unknown tool is
\* answered with an empty result
handleToolCallLenient(hasParams, params, evs, n, t) ==
    Enter("handleToolCall",
      IF ~hasParams THEN Throw(TypeError("name"), evs, n)
      ELSE LET name == Text(params, "name")
               hasArgs == Has(params, "arguments")
               args == IF hasArgs THEN params.arguments ELSE EmptyObj
           IN CASE name = "create_event" ->
                     Enter("createEvent", createEvent(hasArgs, args, evs, n, t))
                [] name = "list_events" ->
                     Enter("listEvents", listEvents(hasArgs, args, evs, n))
                [] name = "get_event" ->
                     Enter("getEvent", getEvent(hasArgs, args, evs, n))
                [] name = "update_event" ->
                     Enter("updateEvent", updateEvent(hasArgs, args, evs, n, t))
                [] name = "delete_event" ->
                     Enter("deleteEvent", deleteEvent(hasArgs, args, evs, n))
                [] name = "search_events" ->
                     Enter("searchEvents", searchEvents(hasArgs, args, evs, n))
                [] OTHER -> Return(EmptyObj, evs, n))

\* part_000:252-271
handleToolCall(hasParams, params, evs, n, t) ==
    Enter("handleToolCall",
      IF ~hasParams THEN Throw(TypeError("name"), evs, n)
      ELSE LET name == Text(params, "name")
               hasArgs == Has(params, "arguments")
               args == IF hasArgs THEN params.arguments ELSE EmptyObj
           IN CASE name = "create_event" ->
                     Enter("createEvent", createEvent(hasArgs, args, evs, n, t))
                [] name = "list_events" ->
                     Enter("listEvents", listEvents(hasArgs, args, evs, n))
                [] name = "get_event" ->
                     Enter("getEvent", getEvent(hasArgs, args, evs, n))
                [] name = "update_event" ->
                     Enter("updateEvent", updateEvent(hasArgs, args, evs, n, t))
                [] name = "delete_event" ->
                     Enter("deleteEvent", deleteEvent(hasArgs, args, evs, n))
                [] name = "search_events" ->
                     Enter("searchEvents", searchEvents(hasArgs, args, evs, n))
                [] OTHER -> Throw(<<"Unknown tool: ", name>>, evs, n))

----------------------------------------------------------------------------
(* Tool implementations of the remote variant (server.js:284-296, 415-654). *)
(* Each tool takes the calendar client, then issues its Google Calendar API *)
(* calls in order; `okCalls` of them succeed and the next one, if any,     *)
(* fails.  The backend's data is opaque to the server.                     *)

\* variant of isAuthenticated: the access token alone counts as a credential
isAuthenticatedAccessOnly(tokens) == Has(tokens, "access_token")

\* server.js:284-286
isAuthenticated(tokens) == Has(tokens, "access_token") /\ Has(tokens, "refresh_token")

\* the API calls each tool issues, in order
ApiCalls(name) ==
    CASE name = "create_event" -> <<"events.insert">>
      [] name = "list_events" -> <<"events.list">>
      [] name = "get_event" -> <<"events.get">>
      [] name = "update_event" -> <<"events.get", "events.update">>
      [] name = "delete_event" -> <<"events.get", "events.delete">>
      [] name = "list_calendars" -> <<"calendarList.list">>
      [] name = "search_events" -> <<"events.list">>

RemoteTools ==
    {"create_event", "list_events", "get_event", "update_event", "delete_event",
     "list_calendars", "search_events"}

\* server.js:289-296 and the body shared by the tools of server.js:439-654
remoteTool(name, hasArgs, tokens, okCalls) ==
    Enter("getCalendarClient",
      IF ~isAuthenticated(tokens)
      THEN Throw("User not authenticated. Please authenticate first.", <<>>, 0)
      ELSE IF ~hasArgs
      THEN Throw(TypeError(IF name = "list_calendars" THEN "max_results" ELSE "calendar_id"),
                 <<>>, 0)
      ELSE LET api == ApiCalls(name)
               made == {api[i] : i \in 1..Min(okCalls + 1, Len(api))}
           IN IF okCalls < Len(api)
              THEN [Throw(<<"Failed: ", name, api[okCalls + 1]>>, <<>>, 0)
                       EXCEPT !.calls = made]
              ELSE [Return([content |-> Content("Done: ", name),
                            data |-> [from |-> api[Len(api)]]], <<>>, 0)
                       EXCEPT !.calls = made])

\* server.js:415-436
handleToolCallRemote(hasParams, params, tokens, okCalls) ==
    Enter("handleToolCall",
      IF ~hasParams THEN Throw(TypeError("name"), <<>>, 0)
      ELSE LET name == Text(params, "name")
           IN IF name \in RemoteTools
              THEN Enter(name, remoteTool(name, Has(params, "arguments"), tokens, okCalls))
              ELSE Throw(<<"Unknown tool: ", name>>, <<>>, 0))

----------------------------------------------------------------------------
(* JSON-RPC envelope helpers (part_000:181-203, server.js:259-281) *)

\* variant of createResponse: result is set on every response, and error
\* is added to it on failure
createResponseBoth(id, result, hasError, error) ==
    IF hasError
    THEN [jsonrpc |-> "2.0", id |-> id, result |-> result, error |-> error]
    ELSE [jsonrpc |-> "2.0", id |-> id, result |-> result]

\* createResponse(id, result) and createResponse(id, null, error)
createResponse(id, result, hasError, error) ==
    IF hasError
    THEN [jsonrpc |-> "2.0", id |-> id, error |-> error]
    ELSE [jsonrpc |-> "2.0", id |-> id, result |-> result]

\* variant of createError: every error is reported as an internal error
createErrorInternal(id, code, message, data) ==
    createResponse(id, "null", TRUE,
                   [code |-> -32603, message |-> "Internal error", data |-> data])

createError(id, code, message, data) ==
    createResponse(id, "null", TRUE, [code |-> code, message |-> message, data |-> data])

\* variant of SERVER_INFO: the descriptor carries the number of stored
\* events, as the answer of GET /info does
SERVER_INFOWithCount(v) ==
    [name |-> IF v = "local" THEN "calendar-server" ELSE "google-calendar-server",
     version |-> "1.0.0",
     protocolVersion |-> "2024-11-05",
     events_count |-> Len(events)]

SERVER_INFO(v) ==
    [name |-> IF v = "local" THEN "calendar-server" ELSE "google-calendar-server",
     version |-> "1.0.0",
     protocolVersion |-> "2024-11-05"]

\* the tool registry, by name
TOOLS(v) ==
    IF v = "local"
    THEN <<"create_event", "list_events", "get_event", "update_event", "delete_event",
           "search_events">>
    ELSE <<"create_event", "list_events", "get_event", "update_event", "delete_event",
           "list_calendars", "search_events">>

\* variant of InitializeResult: the descriptor of the remote server tells
\* whether a credential is stored
InitializeResultTellsAuth(v) ==
    [protocolVersion |-> SERVER_INFO(v).protocolVersion,
     capabilities |-> [tools |-> IF v = "remote" /\ isAuthenticated(userTokens)
                                 THEN [authenticated |-> TRUE] ELSE EmptyObj,
                       resources |-> EmptyObj, prompts |-> EmptyObj],
     serverInfo |-> SERVER_INFO(v)]

InitializeResult(v) ==
    [protocolVersion |-> SERVER_INFO(v).protocolVersion,
     capabilities |-> [tools |-> EmptyObj, resources |-> EmptyObj, prompts |-> EmptyObj],
     serverInfo |-> SERVER_INFO(v)]

BASE_URL == "http://localhost:3000"

\* variant of InternalError: the catch block reports the failure as an
\* invalid request
InternalErrorAsInvalid(r, message) ==
    createError(OrNull(r.id), -32600, "Invalid Request", message)

\* the answer of the catch block: createError(req.body?.id || null, -32603, ...)
InternalError(r, message) == createError(OrNull(r.id), -32603, "Internal error", message)

\* variant of ValidEnvelope: any version string is let through
ValidEnvelopeAnyVersion(r) == Has(r, "jsonrpc")

\* the envelope passes `if (jsonrpc !== "2.0") return ...`
ValidEnvelope(r) == Has(r, "jsonrpc") /\ r.jsonrpc = "2.0"

(* app.post('/mcp') of both variants: the answer, the store and the id      *)
(* generator afterwards, and the functions entered.  The remote variant    *)
(* asks isAuthenticated() before it dispatches a tools/call.               *)
mcp(v, r, evs, n, t, tokens, okCalls) ==
    LET id == r.id
        plain(answer) == [res |-> answer, events |-> evs, issued |-> n, calls |-> {}]
    IN IF ~ValidEnvelope(r)
       THEN plain(createError(id, -32600, "Invalid Request", "null"))
       ELSE CASE Text(r, "method") = "initialize" ->
                   plain(createResponse(id, InitializeResult(v), FALSE, "null"))
              [] Text(r, "method") = "notifications/initialized" ->
                   plain(createResponse(id, EmptyObj, FALSE, "null"))
              [] Text(r, "method") = "tools/list" ->
                   plain(createResponse(id, [tools |-> TOOLS(v)], FALSE, "null"))
              [] Text(r, "method") = "tools/call" ->
                   IF v = "remote" /\ ~isAuthenticated(tokens)
                   THEN [plain(createError(id, -32001, "Authentication required",
                                           [auth_url |-> <<BASE_URL, "/auth">>]))
                            EXCEPT !.calls = {"isAuthenticated"}]
                   ELSE LET params == IF Has(r, "params") THEN r.params ELSE EmptyObj
                            out == IF v = "local"
                                   THEN handleToolCall(Has(r, "params"), params, evs, n, t)
                                   ELSE [Enter("isAuthenticated",
                                           handleToolCallRemote(Has(r, "params"), params,
                                                                tokens, okCalls))
                                           EXCEPT !.events = evs, !.issued = n]
                        IN [res |-> IF out.threw
                                    THEN InternalError(r, out.value)
                                    ELSE createResponse(id, out.value, FALSE, "null"),
                            events |-> out.events,
                            issued |-> out.issued,
                            calls |-> out.calls]
              [] OTHER -> plain(createError(id, -32601, "Method not found", "null"))

----------------------------------------------------------------------------
(* The requests a client sends *)

Maybe(S) == {<<>>} \cup {<<v>> : v \in S}

\* the property k, unless the choice c is "leave it out"
Prop(k, c) == IF c = <<>> THEN EmptyObj ELSE k :> c[1]

Standup == <<"S", "t", "a", "n", "d", "u", "p">>

TeamMeeting == <<"T", "e", "a", "m", " ", "M", "e", "e", "t", "i", "n", "g">>

Weekly == <<"W", "e", "e", "k", "l", "y">>

RequestIds == {"null", "0", "1", "\"\"", "\"a\""}

EventIds == 1..MaxUuids

FullEvent ==
    [title |-> TeamMeeting, description |-> Weekly,
     start_time |-> "2024-01-20T09:00:00Z", end_time |-> "2024-01-20T10:00:00Z",
     location |-> "Room B", attendees |-> <<"ana@example.com">>]

MinimalEvent ==
    [title |-> Standup, start_time |-> "2024-01-15T10:00:00Z",
     end_time |-> "2024-01-15T10:15:00Z"]

Without(o, k) == [f \in DOMAIN o \ {k} |-> o[f]]

CreateArgs ==
    {FullEvent, MinimalEvent, EmptyObj}
    \cup {Without(MinimalEvent, k) : k \in {"title", "start_time", "end_time"}}

ListArgs ==
    {Prop("start_date", sd) @@ Prop("end_date", ed) @@ Prop("limit", li) :
        sd \in Maybe({"", "2024-01-20", "2024-01-15T10:00:00Z"}),
        ed \in Maybe({"2024-01-20"}),
        li \in Maybe({0, 1})}

\* the fields an update_event request carries, besides event_id
UpdateFields ==
    {EmptyObj,
     [location |-> "Room A"],
     [title |-> TeamMeeting, description |-> <<>>, attendees |-> <<>>,
      start_time |-> "2024-01-20T09:00:00Z", end_time |-> "2024-01-15T10:15:00Z"]}

UpdateArgs == {Prop("event_id", id) @@ f : id \in Maybe(EventIds), f \in UpdateFields}

IdArgs == {Prop("event_id", id) : id \in Maybe(EventIds)}

SearchArgs ==
    {Prop("query", q) @@ Prop("limit", li) :
        q \in Maybe({<<"m", "e", "e", "t", "i", "n", "g">>, <<"W", "E">>}),
        li \in Maybe({0, 1})}

ArgsOf(name) ==
    CASE name = "create_event" -> CreateArgs
      [] name = "list_events" -> ListArgs
      [] name = "get_event" -> IdArgs
      [] name = "update_event" -> UpdateArgs
      [] name = "delete_event" -> IdArgs
      [] name = "search_events" -> SearchArgs
      [] OTHER -> {EmptyObj}

ToolNames ==
    {"create_event", "list_events", "get_event", "update_event", "delete_event",
     "search_events", "list_calendars", "send_invite"}

\* params of the tools/call requests sent to the store
StoreParams ==
    UNION {{[name |-> nm, arguments |-> a] : a \in ArgsOf(nm)} : nm \in ToolNames}
    \cup {[name |-> nm] : nm \in ToolNames}
    \cup {[arguments |-> EmptyObj]}

StoreRequests ==
    {[jsonrpc |-> "2.0", method |-> "tools/call", id |-> "1", params |-> p] :
        p \in StoreParams}

\* params of the tools/call requests sent with every envelope
RouterParams(v) ==
    IF v = "local"
    THEN {[name |-> "create_event", arguments |-> MinimalEvent],
          [name |-> "get_event", arguments |-> [event_id |-> 1]],
          [name |-> "update_event", arguments |-> [event_id |-> 1, location |-> "Room A"]],
          [name |-> "delete_event", arguments |-> [event_id |-> 1]],
          [name |-> "send_invite", arguments |-> EmptyObj],
          [name |-> "list_events"],
          [name |-> "list_events", arguments |-> EmptyObj],
          [name |-> "search_events",
           arguments |-> [query |-> <<"s", "t", "a", "n", "d">>]]}
    ELSE {[name |-> nm, arguments |-> EmptyObj] : nm \in ToolNames}
         \cup {[name |-> "update_event"], [arguments |-> EmptyObj]}

Methods ==
    {"initialize", "notifications/initialized", "tools/list", "tools/call",
     "resources/list"}

RouterRequests(v) ==
    {Prop("jsonrpc", ver) @@ ("method" :> m) @@ ("id" :> id) @@ Prop("params", p) :
        ver \in Maybe({"2.0", "1.0"}),
        m \in Methods \ {"tools/call"},
        id \in RequestIds,
        p \in {<<>>}}
    \cup
    {Prop("jsonrpc", ver) @@ ("method" :> "tools/call") @@ ("id" :> id) @@ Prop("params", p) :
        ver \in Maybe({"2.0", "1.0"}),
        id \in RequestIds,
        p \in Maybe(RouterParams(v))}

\* the tool a request asks for; "none" when it is no tools/call naming one
ToolOf(r) ==
    IF /\ Has(r, "jsonrpc") /\ r.jsonrpc = "2.0"
       /\ r.method = "tools/call"
       /\ Has(r, "params") /\ Has(r.params, "name")
    THEN r.params.name ELSE "none"

\* the event_id a request carries; 0 when it carries none
EventIdOf(r) ==
    IF /\ ToolOf(r) # "none"
       /\ Has(r.params, "arguments") /\ Has(r.params.arguments, "event_id")
    THEN r.params.arguments.event_id ELSE 0

----------------------------------------------------------------------------
(* Requests in flight.  Node runs a handler until it awaits a promise that *)
(* is not settled yet; other handlers run in between.  A handler is kept   *)
(* with the place it stands at (`pc`) and its local variables.             *)

Clients == {"c1", "c2"}

\* the handler of a request that has arrived and has not run yet; `overlap`
\* (history) holds the clients that had a request in flight at some moment
\* of this one's handling
Handler(r, others) ==
    [req |-> r, pc |-> "received", eventIndex |-> 0, read |-> EmptyObj,
     event |-> EmptyObj, res |-> EmptyObj, overlap |-> others]

\* the handler has sent its answer
Sent(h, answer) == [h EXCEPT !.pc = "answered", !.res = answer]

\* the answer of app.post('/mcp') to the outcome of handleToolCall
AnswerOf(r, out) ==
    IF out.threw THEN InternalError(r, out.value)
    ELSE createResponse(r.id, out.value, FALSE, "null")

\* variant of SuspendsBeforeWrite: updateEvent and deleteEvent await
\* something between findIndex and their writes
SuspendsAfterFindIndex(name) == name \in {"update_event", "delete_event"}

\* whether the body of a local tool suspends between its read of `events`
\* and its write: part_000:274-404 hold no await, so none does
SuspendsBeforeWrite(name) == FALSE

\* updateEvent and deleteEvent from the line after the `eventIndex === -1`
\* test on (part_000:349-367, 377-385), run with the eventIndex held
afterFindIndex(name, args, eventIndex, evs, n, t) ==
    IF eventIndex > Len(evs)
    THEN Throw(IF name = "update_event"
               THEN <<"Cannot set properties of undefined">>
               ELSE TypeError("title"), evs, n)
    ELSE IF name = "update_event"
    THEN LET event == ("updated_at" :> t) @@ Overwrite(evs[eventIndex], args)
         IN Return([content |-> Content("Event updated successfully: ",
                                        Text(event, "title")),
                    event |-> event],
                   [evs EXCEPT ![eventIndex] = event], n)
    ELSE Return([content |-> Content("Event deleted successfully: ",
                                     Text(evs[eventIndex], "title")),
                 deleted_event_id |-> args.event_id],
                Splice(evs, eventIndex), n)

(* One run of the handler of a local request (part_000:206-249), from the  *)
(* place it stands at to its next suspension or to its answer.             *)
localStep(h, evs, n, t) ==
    LET r == h.req
        name == ToolOf(r)
    IN IF h.pc = "received"
       THEN IF /\ SuspendsBeforeWrite(name)
               /\ EventIdOf(r) # 0 /\ findIndex(evs, EventIdOf(r)) # 0
            THEN [h |-> [h EXCEPT !.pc = "found",
                                  !.eventIndex = findIndex(evs, EventIdOf(r))],
                  events |-> evs, issued |-> n]
            ELSE LET out == mcp("local", r, evs, n, t, EmptyObj, 0)
                 IN [h |-> Sent(h, out.res), events |-> out.events, issued |-> out.issued]
       ELSE LET out == afterFindIndex(name, r.params.arguments, h.eventIndex, evs, n, t)
            IN [h |-> Sent(h, AnswerOf(r, out)), events |-> out.events,
                issued |-> out.issued]

\* the calendar of the Google account the server is connected to
GoogleCalendar ==
    "evt1" :> [id |-> "evt1", summary |-> Standup, location |-> "Room B"]

\* server.js:546-557: the fields of the request written into the event read
Merged(event, args) ==
    LET set(o, k, from, v) == IF Has(args, from) THEN (k :> v) @@ o ELSE o
        e1 == set(event, "summary", "title", Text(args, "title"))
        e2 == set(e1, "description", "description", Text(args, "description"))
        e3 == set(e2, "location", "location", Text(args, "location"))
        e4 == set(e3, "start", "start_time",
                  [dateTime |-> Text(args, "start_time"), timeZone |-> "UTC"])
        e5 == set(e4, "end", "end_time",
                  [dateTime |-> Text(args, "end_time"), timeZone |-> "UTC"])
    IN set(e5, "attendees", "attendees",
           IF Has(args, "attendees")
           THEN [i \in 1..Len(args.attendees) |-> [email |-> args.attendees[i]]]
           ELSE <<>>)

\* variant of resourceWritten: the request's fields are merged into the
\* event the calendar holds when the write is made
resourceRebased(h, cal) ==
    Merged(cal[h.req.params.arguments.event_id], h.req.params.arguments)

\* server.js:557-562: `resource: event`, the object events.get returned with
\* the request's fields merged into it
resourceWritten(h, cal) == h.event

\* the remote tools whose API calls are followed into the calendar
CalendarTools == {"get_event", "update_event", "delete_event"}

\* `Failed to <verb> event: ${error.message}` of the tools' catch blocks
Failed(name, message) ==
    <<"Failed to ",
      CASE name = "get_event" -> "get"
        [] name = "update_event" -> "update"
        [] name = "delete_event" -> "delete",
      " event: ", message>>

(* One run of the handler of a remote request (server.js:363-412 with      *)
(* getEvent, updateEvent and deleteEvent, server.js:510-605), from the     *)
(* place it stands at to its next await of the Calendar API or to its      *)
(* answer.  The API call a handler awaits is served by Google at the       *)
(* moment the handler resumes.                                             *)
remoteStep(h, cal, tokens) ==
    LET r == h.req
        name == ToolOf(r)
        args == r.params.arguments
        id == Text(args, "event_id")
        fail(m) == [h |-> Sent(h, InternalError(r, Failed(name, m))), calendar |-> cal]
        done(v, c) == [h |-> Sent(h, createResponse(r.id, v, FALSE, "null")), calendar |-> c]
    IN CASE h.pc = "received" ->
              IF /\ name \in CalendarTools /\ Has(r.params, "arguments")
                 /\ isAuthenticated(tokens)
              THEN [h |-> [h EXCEPT !.pc = "events.get"], calendar |-> cal]
              ELSE [h |-> Sent(h, mcp("remote", r, <<>>, 0, 0, tokens, 0).res),
                    calendar |-> cal]
         [] h.pc = "events.get" ->
              IF id \notin DOMAIN cal THEN fail("Not Found")
              ELSE IF name = "get_event"
              THEN done([content |-> Content("Event details: ", Text(cal[id], "summary")),
                         event |-> cal[id]], cal)
              ELSE IF name = "update_event"
              THEN [h |-> [h EXCEPT !.pc = "events.update", !.read = cal[id],
                                    !.event = Merged(cal[id], args)],
                    calendar |-> cal]
              ELSE [h |-> [h EXCEPT !.pc = "events.delete", !.read = cal[id]],
                    calendar |-> cal]
         [] h.pc = "events.update" ->
              IF id \notin DOMAIN cal THEN fail("Not Found")
              ELSE LET resource == resourceWritten(h, cal)
                   IN done([content |-> Content("Event updated successfully: ",
                                                Text(resource, "summary")),
                            event |-> resource],
                           [cal EXCEPT ![id] = resource])
         [] h.pc = "events.delete" ->
              IF id \notin DOMAIN cal THEN fail("Resource has been deleted")
              ELSE done([content |-> Content("Event deleted successfully: ",
                                             Text(h.read, "summary")),
                         deleted_event_id |-> id],
                        [k \in DOMAIN cal \ {id} |-> cal[k]])

\* the tools/call requests sent to the local server while others are in flight
RaceRequests ==
    {[jsonrpc |-> "2.0", method |-> "tools/call", id |-> "1", params |-> p] :
        p \in {[name |-> "create_event", arguments |-> FullEvent]}
              \cup {[name |-> "update_event", arguments |-> a] :
                      a \in {Prop("event_id", <<id>>) @@ f :
                                id \in EventIds, f \in UpdateFields \ {EmptyObj}}}
              \cup {[name |-> "delete_event", arguments |-> [event_id |-> id]] :
                      id \in EventIds}}

\* the tools/call requests sent to the remote server while others are in flight
CalendarRequests ==
    {[jsonrpc |-> "2.0", method |-> "tools/call", id |-> "1", params |-> p] :
        p \in {[name |-> "update_event",
                arguments |-> [event_id |-> "evt1", title |-> TeamMeeting]],
               [name |-> "update_event",
                arguments |-> [event_id |-> "evt1", location |-> "Room A"]],
               [name |-> "update_event",
                arguments |-> [event_id |-> "evt9", location |-> "Room A"]],
               [name |-> "get_event", arguments |-> [event_id |-> "evt1"]],
               [name |-> "delete_event", arguments |-> [event_id |-> "evt1"]]}}

----------------------------------------------------------------------------
(* The state machine *)

Init ==
    /\ variant \in {"local", "remote"}
    /\ events = <<>>
    /\ issued = 0
    /\ now = 0
    /\ userTokens = EmptyObj
    /\ req = EmptyObj
    /\ res = EmptyObj
    /\ calls = {}
    /\ returnedIds = {}
    /\ deleted = {}
    /\ pristine = EmptyObj
    /\ pending = [c \in Clients |-> EmptyObj]
    /\ calendar = IF variant = "remote" THEN GoogleCalendar ELSE EmptyObj
    /\ handshake = {}

\* no exchange is in progress
Idle == req = EmptyObj

\* the server handles the request r and answers it
Post(r, okCalls) ==
    /\ Idle
    /\ ToolOf(r) = "create_event" => issued < MaxUuids
    /\ LET out == mcp(variant, r, events, issued, now, userTokens, okCalls)
           done(tool) == variant = "local" /\ ToolOf(r) = tool /\ Has(out.res, "result")
       IN /\ req' = r
          /\ res' = out.res
          /\ events' = out.events
          /\ issued' = out.issued
          /\ calls' = out.calls
          /\ returnedIds' = IF done("create_event")
                            THEN returnedIds \cup {out.res.result.event.id}
                            ELSE returnedIds
          /\ deleted' = IF done("delete_event")
                        THEN deleted \cup {EventIdOf(r)}
                        ELSE deleted
          /\ pristine' =
                IF done("create_event")
                THEN (out.res.result.event.id :> out.res.result.event) @@ pristine
                ELSE IF done("update_event") \/ done("delete_event")
                THEN [i \in DOMAIN pristine \ {EventIdOf(r)} |-> pristine[i]]
                ELSE pristine
          /\ handshake' =
                IF /\ ValidEnvelope(r)
                   /\ r.method \in {"initialize", "tools/list"}
                THEN handshake \cup {r.method}
                ELSE handshake
    /\ UNCHANGED <<variant, now, userTokens, pending, calendar>>

\* POST /mcp handled by the local server
LocalPost ==
    /\ variant = "local"
    /\ \E r \in RouterRequests("local") : Post(r, 0)

\* POST /mcp handled by the remote server
RemotePost ==
    /\ variant = "remote"
    /\ \E r \in RouterRequests("remote"), okCalls \in 0..2 : Post(r, okCalls)

\* a tools/call handled by the local server
StorePost ==
    /\ variant = "local"
    /\ \E r \in StoreRequests : Post(r, 0)

\* the answer has been sent; the server waits for the next request
Close ==
    /\ ~Idle
    /\ req' = EmptyObj
    /\ res' = EmptyObj
    /\ calls' = {}
    /\ UNCHANGED <<variant, events, issued, now, userTokens, returnedIds, deleted, pristine,
                   pending, calendar, handshake>>

\* GET /auth/callback (server.js:309-360): getToken(code) fails, or returns
\* the tokens Google grants
AuthCallback ==
    /\ variant = "remote"
    /\ Idle
    /\ \E granted \in {{}, {"access_token"}, {"access_token", "refresh_token"}} :
          userTokens' = IF granted = {} THEN userTokens
                        ELSE [k \in granted |-> "token"]
    /\ UNCHANGED <<variant, events, issued, now, req, res, calls, returnedIds, deleted, pristine,
                   pending, calendar, handshake>>

\* time passes
Tick ==
    /\ Idle
    /\ now < MaxClock
    /\ now' = now + 1
    /\ UNCHANGED <<variant, events, issued, userTokens, req, res, calls,
                   returnedIds, deleted, pristine, pending, calendar, handshake>>

Next == LocalPost \/ RemotePost \/ AuthCallback \/ Tick \/ Close

Spec == Init /\ [][Next]_vars

\* the local server under tool calls of every kind, within one clock reading
InitStore == Init /\ variant = "local"

NextStore == StorePost \/ Close

SpecStore == InitStore /\ [][NextStore]_vars

\* the clients whose requests are in flight and not answered yet
InFlight == {c \in Clients : pending[c] # EmptyObj /\ pending[c].pc # "answered"}

\* the request r of client c arrives
Receive(c, r) ==
    /\ pending[c] = EmptyObj
    /\ pending' = [d \in Clients |->
                     IF d = c THEN Handler(r, InFlight)
                     ELSE IF d \in InFlight
                     THEN [pending[d] EXCEPT !.overlap = @ \cup {c}]
                     ELSE pending[d]]
    /\ UNCHANGED <<variant, events, issued, now, userTokens, req, res, calls,
                   returnedIds, deleted, pristine, calendar, handshake>>

\* a tools/call arrives at the local server
LocalReceive ==
    /\ variant = "local"
    /\ \E c \in Clients, r \in RaceRequests : Receive(c, r)

\* a tools/call arrives at the remote server
RemoteReceive ==
    /\ variant = "remote"
    /\ \E c \in Clients, r \in CalendarRequests : Receive(c, r)

\* the handler of a request in flight runs up to its next suspension
Advance ==
    \E c \in InFlight :
       /\ ToolOf(pending[c].req) = "create_event" => issued < MaxUuids
       /\ IF variant = "local"
          THEN LET out == localStep(pending[c], events, issued, now)
               IN /\ pending' = [pending EXCEPT ![c] = out.h]
                  /\ events' = out.events
                  /\ issued' = out.issued
                  /\ calendar' = calendar
          ELSE LET out == remoteStep(pending[c], calendar, userTokens)
               IN /\ pending' = [pending EXCEPT ![c] = out.h]
                  /\ calendar' = out.calendar
                  /\ UNCHANGED <<events, issued>>
       /\ UNCHANGED <<variant, now, userTokens, req, res, calls,
                      returnedIds, deleted, pristine, handshake>>

\* the client has read the answer to its request
Forget ==
    \E c \in Clients :
       /\ pending[c] # EmptyObj /\ pending[c].pc = "answered"
       /\ pending' = [pending EXCEPT ![c] = EmptyObj]
       /\ UNCHANGED <<variant, events, issued, now, userTokens, req, res, calls,
                      returnedIds, deleted, pristine, calendar, handshake>>

\* the local server with the requests of two clients in flight
InitRace == Init /\ variant = "local"

NextRace == LocalReceive \/ Advance \/ Forget

SpecRace == InitRace /\ [][NextRace]_vars

\* the remote server with the requests of two clients in flight
InitCalendar == Init /\ variant = "remote"

NextCalendar == AuthCallback \/ RemoteReceive \/ Advance \/ Forget

SpecCalendar == InitCalendar /\ [][NextCalendar]_vars

----------------------------------------------------------------------------
(* Properties.  An exchange is the step that takes the server from Idle to *)
(* a state holding the request and its answer.                             *)

Answered == req # EmptyObj

Exchange == req = EmptyObj /\ req' # EmptyObj

Succeeded == Has(res, "result")

RequiredFields == {"title", "start_time", "end_time"}

\* C1: a request whose jsonrpc member is missing or is not "2.0" is answered
\* with error -32600 "Invalid Request", whatever its method, variant and
\* authentication state; no function is entered and the store, the id
\* generator and the credential are left as they were.
C1_InvalidEnvelopeRejected ==
    [][(Exchange /\ (~Has(req', "jsonrpc") \/ req'.jsonrpc # "2.0"))
         => /\ Has(res', "error") /\ ~Has(res', "result")
            /\ res'.error.code = -32600
            /\ res'.error.message = "Invalid Request"
            /\ calls' = {}
            /\ events' = events /\ issued' = issued /\ userTokens' = userTokens]_vars

\* a tools/call with jsonrpc "1.0" sent to the authenticated remote server
\* has been rejected
C1_Witness ==
    /\ Answered /\ variant = "remote"
    /\ Has(userTokens, "access_token") /\ Has(userTokens, "refresh_token")
    /\ Has(req, "jsonrpc") /\ req.jsonrpc = "1.0"
    /\ req.method = "tools/call" /\ Has(req, "params")
    /\ res.error.code = -32600

\* C2: in the remote variant a tools/call with a valid envelope, sent while
\* access token or refresh token is missing, is answered with error -32001
\* "Authentication required" and a non-empty data.auth_url; neither the
\* dispatcher nor any tool nor the backend is entered, whatever the tool name.
C2_UnauthenticatedCallGated ==
    (/\ Answered /\ variant = "remote"
     /\ Has(req, "jsonrpc") /\ req.jsonrpc = "2.0"
     /\ req.method = "tools/call"
     /\ ~(Has(userTokens, "access_token") /\ Has(userTokens, "refresh_token")))
    => /\ Has(res, "error") /\ ~Has(res, "result")
       /\ res.error.code = -32001
       /\ res.error.message = "Authentication required"
       /\ Has(res.error.data, "auth_url")
       /\ \E i \in 1..Len(res.error.data.auth_url) : res.error.data.auth_url[i] # ""
       /\ calls = {"isAuthenticated"}

\* a call of an unknown tool, sent while only the access token is stored,
\* has been answered with -32001
C2_Witness ==
    /\ Answered /\ variant = "remote"
    /\ DOMAIN userTokens = {"access_token"}
    /\ ToolOf(req) = "send_invite"
    /\ res.error.code = -32001

\* C3 (as claimed): every response carries the id of its request, for every
\* id value, method and outcome.
C3_IdEchoed == Answered => res.id = req.id

\* C4: no two events of the store have the same id, and the id a successful
\* create_event returns was returned by no earlier create_event.
C4_IdsUnique ==
    [][/\ \A i, j \in 1..Len(events') : i # j => events'[i].id # events'[j].id
       /\ (Exchange /\ ToolOf(req') = "create_event" /\ Has(res', "result"))
            => res'.result.event.id \notin returnedIds]_vars

\* a second id has been returned, after the event with the first id was
\* updated and deleted
C4_Witness ==
    /\ Answered /\ ToolOf(req) = "create_event" /\ Succeeded
    /\ Cardinality(returnedIds) = 2
    /\ deleted # {}
    /\ res.result.event.id \notin deleted
    /\ Len(events) = 1

\* C5: once delete_event has succeeded for an id, every later get_event,
\* update_event and delete_event on that id fails with "Event not found",
\* and no later create_event returns that id.
C5_DeletedStaysDeleted ==
    [][Exchange =>
         /\ (/\ ToolOf(req') \in {"get_event", "update_event", "delete_event"}
             /\ EventIdOf(req') \in deleted)
              => /\ Has(res', "error")
                 /\ res'.error.code = -32603
                 /\ res'.error.data = <<"Event not found: ", EventIdOf(req')>>
                 /\ events' = events
         /\ (ToolOf(req') = "create_event" /\ Has(res', "result"))
              => res'.result.event.id \notin deleted]_vars

\* a get_event on a deleted id has failed after a later create_event
C5_Witness ==
    /\ Answered /\ ToolOf(req) = "get_event"
    /\ EventIdOf(req) \in deleted
    /\ Has(res, "error")
    /\ \E i \in 1..Len(events) : events[i].id > EventIdOf(req)

\* C6: a successful update_event leaves every field of its event that the
\* request does not carry (id and created_at among them, updated_at apart)
\* as it was, and leaves every other event, and the order, as they were.
C6_UpdateFrame ==
    [][(Exchange /\ ToolOf(req') = "update_event" /\ Has(res', "result"))
         => /\ Len(events') = Len(events)
            /\ \A i \in 1..Len(events) :
                  IF events[i].id = EventIdOf(req')
                  THEN \A k \in (DOMAIN events[i] \cup DOMAIN events'[i])
                                   \ (DOMAIN req'.params.arguments \cup {"updated_at"}) :
                          /\ k \in DOMAIN events[i] \cap DOMAIN events'[i]
                          /\ events'[i][k] = events[i][k]
                  ELSE events'[i] = events[i]]_vars

\* an update carrying only location has been applied to the second of two
\* events, whose other optional fields are not empty
C6_Witness ==
    /\ Answered /\ ToolOf(req) = "update_event" /\ Succeeded
    /\ DOMAIN req.params.arguments = {"event_id", "location"}
    /\ Len(events) = 2
    /\ events[2].id = EventIdOf(req)
    /\ events[2].location = "Room A"
    /\ events[2].attendees # <<>>
    /\ events[2].description # <<>>

\* C7: get_event on an id create_event returned, with no successful
\* update_event or delete_event on that id in between, succeeds, returns the
\* event create_event returned, and leaves the store as it was.
C7_GetReturnsCreated ==
    [][(Exchange /\ ToolOf(req') = "get_event" /\ EventIdOf(req') \in DOMAIN pristine)
         => /\ Has(res', "result")
            /\ res'.result.event = pristine[EventIdOf(req')]
            /\ events' = events]_vars

\* the second of two events has been read back unchanged, after an update
\* of the first
C7_Witness ==
    /\ Answered /\ ToolOf(req) = "get_event" /\ Succeeded
    /\ Len(events) = 2
    /\ EventIdOf(req) = events[2].id
    /\ EventIdOf(req) \in DOMAIN pristine
    /\ Has(events[1], "updated_at")
    /\ res.result.event = events[2]

\* C8 (as claimed): list_events with limit = N returns at most N events, for
\* every N >= 0.
C8_LimitRespected ==
    (/\ Answered /\ ToolOf(req) = "list_events" /\ Succeeded
     /\ Has(req.params.arguments, "limit"))
    => Len(res.result.events) <= req.params.arguments.limit

\* C9: every event list_events returns starts at or after start_date when a
\* (non-empty) start_date is supplied, and at or before end_date when a
\* (non-empty) end_date is supplied; both bounds are taken on start_time.
C9_ListWithinBounds ==
    (Answered /\ ToolOf(req) = "list_events" /\ Succeeded)
    => \A i \in 1..Len(res.result.events) :
          LET e == res.result.events[i]
              a == req.params.arguments
          IN /\ (Has(a, "start_date") /\ a.start_date # "")
                  => /\ Has(e, "start_time")
                     /\ IsDate(e.start_time) /\ IsDate(a.start_date)
                     /\ DateParse(e.start_time) >= DateParse(a.start_date)
             /\ (Has(a, "end_date") /\ a.end_date # "")
                  => /\ Has(e, "start_time")
                     /\ IsDate(e.start_time) /\ IsDate(a.end_date)
                     /\ DateParse(e.start_time) <= DateParse(a.end_date)

\* of two stored events, the one starting exactly at start_date has been
\* returned and the one starting after end_date has not
C9_Witness ==
    /\ Answered /\ ToolOf(req) = "list_events" /\ Succeeded
    /\ Has(req.params.arguments, "start_date") /\ Has(req.params.arguments, "end_date")
    /\ Len(events) = 2
    /\ Len(res.result.events) = 1
    /\ res.result.events[1].start_time = req.params.arguments.start_date

\* C10 (as claimed): create_event whose arguments lack title, start_time or
\* end_time is answered with error -32603 and adds no event.
C10_RequiredFieldsEnforced ==
    [][(/\ Exchange /\ ToolOf(req') = "create_event"
        /\ Has(req'.params, "arguments")
        /\ ~(RequiredFields \subseteq DOMAIN req'.params.arguments))
         => /\ Has(res', "error")
            /\ res'.error.code = -32603
            /\ events' = events]_vars

\* C11: in the local variant get_event, update_event and delete_event with
\* an event_id that no stored event has are answered with error -32603
\* "Internal error" whose data is "Event not found: <event_id>", and the
\* store is left exactly as it was.
C11_UnknownIdNotFound ==
    [][(/\ Exchange
        /\ ToolOf(req') \in {"get_event", "update_event", "delete_event"}
        /\ EventIdOf(req') # 0
        /\ \A i \in 1..Len(events) : events[i].id # EventIdOf(req'))
         => /\ Has(res', "error") /\ ~Has(res', "result")
            /\ res'.error.code = -32603
            /\ res'.error.message = "Internal error"
            /\ res'.error.data = <<"Event not found: ", EventIdOf(req')>>
            /\ events' = events]_vars

\* a delete_event on an id never issued has failed while the store holds an
\* event
C11_Witness ==
    /\ Answered /\ ToolOf(req) = "delete_event"
    /\ EventIdOf(req) > issued
    /\ Len(events) = 1
    /\ Has(res, "error")
    /\ res.error.data = <<"Event not found: ", EventIdOf(req)>>

\* C12 (as claimed): search_events with a query returns exactly the stored
\* events, in store order and up to the limit (10 when none is given), whose
\* title or description contains the query, letter case apart; an event
\* matching on neither field is not returned.
C12_SearchExact ==
    (/\ Answered /\ ToolOf(req) = "search_events"
     /\ Has(req.params, "arguments") /\ Has(req.params.arguments, "query"))
    => LET a == req.params.arguments
           Contains(e, k) == Has(e, k) /\ includes(toLowerCase(e[k]), toLowerCase(a.query))
           Matching(e) == Contains(e, "title") \/ Contains(e, "description")
           limit == IF Has(a, "limit") THEN a.limit ELSE DefaultLimit
       IN /\ Has(res, "result")
          /\ res.result.events = Slice(SelectSeq(events, Matching), limit)

\* a handler of client c is in flight or answered
Pending(c) == pending[c] # EmptyObj

\* C13: in the local variant every tools/call in flight takes effect in one
\* step, as the whole handler run on the store of that moment: its answer and
\* the store after it are those of the serial handler, and a handler that has
\* not answered has written nothing.  So an update_event and a delete_event
\* on the same id that were in flight together end in one of the serial
\* orders: both succeed (update first), or the delete succeeds and the update
\* fails "Event not found", or the id was not stored and both fail so; the id
\* is then not in the store.
C13_UpdateDeleteSerial ==
    [][/\ \A c \in Clients :
            (Pending(c) /\ pending[c].pc # "answered" /\ pending'[c] # pending[c])
            => IF pending'[c].pc = "answered"
               THEN LET serial == mcp("local", pending[c].req, events, issued, now,
                                      EmptyObj, 0)
                    IN pending'[c].res = serial.res /\ events' = serial.events
               ELSE pending'[c].overlap # pending[c].overlap \/ events' = events
       /\ \A u, d \in Clients :
            (/\ pending'[u] # EmptyObj /\ pending'[d] # EmptyObj
             /\ pending'[u].pc = "answered" /\ pending'[d].pc = "answered"
             /\ ToolOf(pending'[u].req) = "update_event"
             /\ ToolOf(pending'[d].req) = "delete_event"
             /\ EventIdOf(pending'[u].req) = EventIdOf(pending'[d].req)
             /\ d \in pending'[u].overlap /\ u \in pending'[d].overlap)
            => LET id == EventIdOf(pending'[u].req)
                   ures == pending'[u].res
                   dres == pending'[d].res
                   notFound(r) == /\ Has(r, "error") /\ r.error.code = -32603
                                  /\ r.error.data = <<"Event not found: ", id>>
               IN /\ \A i \in 1..Len(events') : events'[i].id # id
                  /\ \/ Has(ures, "result") /\ Has(dres, "result")
                     \/ notFound(ures) /\ Has(dres, "result")
                     \/ notFound(ures) /\ notFound(dres)]_vars

\* an update_event and a delete_event on the same id, in flight together,
\* have both succeeded, and the other event is still stored
C13_Witness ==
    \E u, d \in Clients :
       /\ Pending(u) /\ Pending(d)
       /\ pending[u].pc = "answered" /\ pending[d].pc = "answered"
       /\ ToolOf(pending[u].req) = "update_event"
       /\ ToolOf(pending[d].req) = "delete_event"
       /\ EventIdOf(pending[u].req) = 1
       /\ EventIdOf(pending[d].req) = 1
       /\ d \in pending[u].overlap /\ u \in pending[d].overlap
       /\ Has(pending[u].res, "result") /\ Has(pending[d].res, "result")
       /\ Len(events) = 1

\* the fields of a Google event that the fields of an update_event request
\* are written to
Targets(args) ==
    {"summary" : k \in {"title"} \cap DOMAIN args}
    \cup ({"description", "location", "attendees"} \cap DOMAIN args)
    \cup {"start" : k \in {"start_time"} \cap DOMAIN args}
    \cup {"end" : k \in {"end_time"} \cap DOMAIN args}

\* C14: in the remote variant update_event reads the event, suspends, and
\* later writes the whole object back: the event the calendar holds after
\* the write has, in every field the request does not carry, the value read
\* earlier, whatever the calendar held at the moment of the write; so a
\* change another request made in between is overwritten.
C14_UpdateWritesBackWhatItRead ==
    [][\A c \in Clients :
          (/\ variant = "remote" /\ Pending(c)
           /\ pending[c].pc = "events.update"
           /\ pending'[c].pc = "answered" /\ Has(pending'[c].res, "result"))
          => LET args == pending[c].req.params.arguments
                 read == pending[c].read
                 written == calendar'[args.event_id]
             IN /\ DOMAIN written = DOMAIN read \cup Targets(args)
                /\ \A k \in DOMAIN read \ Targets(args) : written[k] = read[k]
                /\ Has(args, "title") => written.summary = args.title
                /\ Has(args, "location") => written.location = args.location
                /\ pending'[c].res.result.event = written]_vars

\* a lost update: two update_event requests in flight together, one carrying
\* only title and one only location, have both been answered with success,
\* and the calendar holds the new location with the old title
C14_Witness ==
    \E a, b \in Clients :
       /\ Pending(a) /\ Pending(b)
       /\ pending[a].pc = "answered" /\ pending[b].pc = "answered"
       /\ b \in pending[a].overlap /\ a \in pending[b].overlap
       /\ ToolOf(pending[a].req) = "update_event"
       /\ ToolOf(pending[b].req) = "update_event"
       /\ DOMAIN pending[a].req.params.arguments = {"event_id", "title"}
       /\ DOMAIN pending[b].req.params.arguments = {"event_id", "location"}
       /\ pending[a].req.params.arguments.event_id = "evt1"
       /\ pending[b].req.params.arguments.event_id = "evt1"
       /\ Has(pending[a].res, "result") /\ Has(pending[b].res, "result")
       /\ pending[a].res.result.event.summary = TeamMeeting
       /\ calendar["evt1"].location = "Room A"
       /\ calendar["evt1"].summary = Standup

\* the methods the router's switch has a case for
KnownMethods == {"initialize", "notifications/initialized", "tools/list", "tools/call"}

\* C15: a request with jsonrpc "2.0" whose method is none of initialize,
\* notifications/initialized, tools/list and tools/call is answered with
\* error -32601 "Method not found", in both variants and whatever tokens are
\* stored; no function is entered and the store, the id generator and the
\* tokens are left as they were.
C15_UnknownMethodRejected ==
    [][(/\ Exchange
        /\ Has(req', "jsonrpc") /\ req'.jsonrpc = "2.0"
        /\ req'.method \notin KnownMethods)
         => /\ Has(res', "error") /\ ~Has(res', "result")
            /\ res'.error.code = -32601
            /\ res'.error.message = "Method not found"
            /\ calls' = {}
            /\ events' = events /\ issued' = issued /\ userTokens' = userTokens]_vars

\* resources/list has been rejected by the remote server while it holds an
\* access token and no refresh token
C15_Witness ==
    /\ Answered /\ variant = "remote"
    /\ DOMAIN userTokens = {"access_token"}
    /\ Has(req, "jsonrpc") /\ req.jsonrpc = "2.0"
    /\ req.method = "resources/list"
    /\ res.error.code = -32601

\* C16: a tools/call that reaches the dispatcher is answered once, with the
\* dispatcher's result when it returns, and with error -32603 "Internal
\* error" whose data is the failure's message when the dispatcher or a tool
\* throws (unknown tool, missing params or arguments, event not found, a
\* failed Calendar API call), in both variants.
C16_FailuresReported ==
    [][(/\ Exchange
        /\ Has(req', "jsonrpc") /\ req'.jsonrpc = "2.0"
        /\ req'.method = "tools/call"
        /\ \/ variant = "local"
           \/ Has(userTokens, "access_token") /\ Has(userTokens, "refresh_token"))
         => \E okCalls \in 0..2 :
               LET hasParams == Has(req', "params")
                   params == IF hasParams THEN req'.params ELSE EmptyObj
                   out == IF variant = "local"
                          THEN handleToolCall(hasParams, params, events, issued, now)
                          ELSE handleToolCallRemote(hasParams, params, userTokens, okCalls)
               IN IF out.threw
                  THEN /\ Has(res', "error") /\ ~Has(res', "result")
                       /\ res'.error.code = -32603
                       /\ res'.error.message = "Internal error"
                       /\ res'.error.data = out.value
                  ELSE /\ Has(res', "result") /\ ~Has(res', "error")
                       /\ res'.result = out.value]_vars

\* the remote update_event has been answered with the failure of its second
\* Calendar API call
C16_Witness ==
    /\ Answered /\ variant = "remote"
    /\ ToolOf(req) = "update_event"
    /\ "events.update" \in calls
    /\ Has(res, "error")
    /\ res.error.code = -32603
    /\ res.error.data = <<"Failed: ", "update_event", "events.update">>

\* C17: update_event on a stored id succeeds, and every one of title,
\* description, start_time, end_time, location and attendees that the
\* request carries, empty values included, is afterwards the value of that
\* field in the stored event and in the event returned.
C17_PresentFieldsOverwrite ==
    [][(/\ Exchange /\ ToolOf(req') = "update_event"
        /\ \E i \in 1..Len(events) : events[i].id = EventIdOf(req'))
         => /\ Has(res', "result")
            /\ \A k \in {"title", "description", "start_time", "end_time", "location",
                         "attendees"} \cap DOMAIN req'.params.arguments :
                  /\ Has(res'.result.event, k)
                  /\ res'.result.event[k] = req'.params.arguments[k]
                  /\ \A i \in 1..Len(events') :
                        events'[i].id = EventIdOf(req')
                        => Has(events'[i], k) /\ events'[i][k] = req'.params.arguments[k]]_vars

\* an event created with a description and an attendee has been given the
\* empty description and the empty attendee list
C17_Witness ==
    /\ Answered /\ ToolOf(req) = "update_event" /\ Succeeded
    /\ Has(req.params.arguments, "description") /\ req.params.arguments.description = <<>>
    /\ Has(req.params.arguments, "attendees") /\ req.params.arguments.attendees = <<>>
    /\ \E i \in 1..Len(events) :
          /\ events[i].id = EventIdOf(req)
          /\ events[i].location = "Room B"
          /\ events[i].description = <<>>
          /\ events[i].attendees = <<>>
          /\ res.result.event = events[i]

\* C18: the router keeps nothing between calls.  initialize is answered
\* with the same descriptor, and tools/list with the same registry, after
\* every history and with every store and token state, and neither changes
\* any state; a tools/call is answered as the store and the tokens alone
\* decide, whether or not initialize or tools/list came before.
C18_RouterStateless ==
    [][(Exchange /\ Has(req', "jsonrpc") /\ req'.jsonrpc = "2.0")
         => /\ req'.method = "initialize"
                 => /\ Has(res', "result") /\ ~Has(res', "error")
                    /\ res'.result =
                          [protocolVersion |-> "2024-11-05",
                           capabilities |-> [tools |-> EmptyObj, resources |-> EmptyObj,
                                             prompts |-> EmptyObj],
                           serverInfo |->
                              [name |-> IF variant = "local" THEN "calendar-server"
                                        ELSE "google-calendar-server",
                               version |-> "1.0.0",
                               protocolVersion |-> "2024-11-05"]]
            /\ req'.method = "tools/list"
                 => /\ Has(res', "result") /\ ~Has(res', "error")
                    /\ res'.result.tools =
                          IF variant = "local"
                          THEN <<"create_event", "list_events", "get_event",
                                 "update_event", "delete_event", "search_events">>
                          ELSE <<"create_event", "list_events", "get_event",
                                 "update_event", "delete_event", "list_calendars",
                                 "search_events">>
            /\ req'.method \in {"initialize", "notifications/initialized", "tools/list"}
                 => /\ events' = events /\ issued' = issued
                    /\ userTokens' = userTokens /\ calls' = {}
            /\ (req'.method = "tools/call" /\ handshake = {})
                 => ~Has(res', "error")
                    \/ res'.error.code = -32603
                    \/ (variant = "remote" /\ res'.error.code = -32001)]_vars

\* a second create_event has succeeded on a local server that was never
\* sent initialize or tools/list
C18_Witness ==
    /\ Answered /\ variant = "local"
    /\ ToolOf(req) = "create_event" /\ Succeeded
    /\ handshake = {}
    /\ Len(events) = 2

\* C19: every response has jsonrpc "2.0" and exactly one of result and
\* error; an error has an integer code and a message (a string), for every
\* method, variant and outcome.
C19_ResponseShape ==
    Answered
    => /\ Has(res, "jsonrpc") /\ res.jsonrpc = "2.0"
       /\ Has(res, "result") # Has(res, "error")
       /\ DOMAIN res \subseteq {"jsonrpc", "id", "result", "error"}
       /\ Has(res, "error")
            => /\ Has(res.error, "code") /\ res.error.code \in Int
               /\ Has(res.error, "message") /\ res.error.message \in STRING
               /\ DOMAIN res.error \subseteq {"code", "message", "data"}

\* notifications/initialized has been answered with the empty result, and
\* no error
C19_Witness ==
    /\ Answered
    /\ ValidEnvelope(req) /\ req.method = "notifications/initialized"
    /\ Has(res, "result") /\ res.result = EmptyObj
    /\ ~Has(res, "error")

\* C20: a tools/call that the local server answers with an error leaves the
\* event collection as it was: the same events with the same field values in
\* the same order, for every tool name and argument object.
C20_ErrorLeavesStore ==
    [][(/\ Exchange /\ variant = "local"
        /\ req'.method = "tools/call"
        /\ Has(res', "error"))
         => events' = events]_vars

\* a create_event sent without arguments has failed on a store holding an
\* event, which is still the only one
C20_Witness ==
    /\ Answered /\ ToolOf(req) = "create_event"
    /\ ~Has(req.params, "arguments")
    /\ Has(res, "error") /\ res.error.code = -32603
    /\ Len(events) = 1

\* C21: in the local variant the event collection grows only in a
\* successful create_event, shrinks only in a successful delete_event and
\* changes otherwise only in a successful update_event; initialize,
\* notifications/initialized, tools/list, list_events, get_event and
\* search_events leave it as it was.
C21_OnlyWritersWrite ==
    [][(Exchange /\ variant = "local")
         => /\ (\/ req'.method \in {"initialize", "notifications/initialized", "tools/list"}
                \/ ToolOf(req') \in {"list_events", "get_event", "search_events"})
                 => events' = events
            /\ events' # events
                 => /\ Has(res', "result")
                    /\ Len(events') > Len(events) => ToolOf(req') = "create_event"
                    /\ Len(events') < Len(events) => ToolOf(req') = "delete_event"
                    /\ Len(events') = Len(events) => ToolOf(req') = "update_event"]_vars

\* search_events has found the stored event, which is still stored
C21_Witness ==
    /\ Answered /\ variant = "local"
    /\ ToolOf(req) = "search_events" /\ Succeeded
    /\ Len(events) = 1
    /\ res.result.events = events

\* C22 (as claimed): every stored event has a title that is a non-empty
\* string and a description that is a string, and search_events with a
\* string query is never answered with an error.
C22_TitlesPresent ==
    /\ \A i \in 1..Len(events) :
          /\ Has(events[i], "title") /\ events[i].title # <<>>
          /\ Has(events[i], "description")
    /\ (/\ Answered /\ ToolOf(req) = "search_events"
        /\ Has(req.params, "arguments") /\ Has(req.params.arguments, "query"))
         => Has(res, "result")

\* C23 (as claimed): list_events returns the first min(limit, number of
\* matches) events, in store order, of the stored events that pass the date
\* bounds supplied, the limit being 10 when the request carries none.
C23_ListExact ==
    (/\ Answered /\ ToolOf(req) = "list_events"
     /\ Has(req.params, "arguments"))
    => LET a == req.params.arguments
           supplied(k) == Has(a, k) /\ a[k] # ""
           Passes(e) == /\ supplied("start_date") => DateGE(StartInstant(e), a.start_date)
                        /\ supplied("end_date") => DateLE(StartInstant(e), a.end_date)
           limit == IF Has(a, "limit") THEN a.limit ELSE DefaultLimit
       IN /\ Has(res, "result")
          /\ res.result.events = Slice(SelectSeq(events, Passes), limit)

\* C24: in the local variant the event a create_event returns has
\* created_at equal to the clock and no updated_at; a successful update_event
\* sets updated_at of its event to the clock, which is not earlier than the
\* event's created_at nor than its updated_at before; an update_event that
\* fails changes no event; and no exchange changes the created_at of an event
\* that stays in the store.
C24_Timestamps ==
    [][(Exchange /\ variant = "local")
         => /\ (ToolOf(req') = "create_event" /\ Has(res', "result"))
                 => /\ ~Has(res'.result.event, "updated_at")
                    /\ res'.result.event.created_at = now
            /\ (ToolOf(req') = "update_event" /\ Has(res', "result"))
                 => \E i \in 1..Len(events) :
                       /\ events[i].id = EventIdOf(req')
                       /\ Has(events'[i], "updated_at")
                       /\ events'[i].updated_at = now
                       /\ events'[i].updated_at >= events'[i].created_at
                       /\ Has(events[i], "updated_at")
                            => events'[i].updated_at >= events[i].updated_at
                       /\ res'.result.event = events'[i]
            /\ (ToolOf(req') = "update_event" /\ Has(res', "error"))
                 => events' = events
            /\ \A i \in 1..Len(events), j \in 1..Len(events') :
                  events[i].id = events'[j].id
                  => events'[j].created_at = events[i].created_at]_vars

\* an event created at time 0 has been updated at time 1
C24_Witness ==
    /\ Answered /\ variant = "local"
    /\ ToolOf(req) = "update_event" /\ Succeeded
    /\ now = 1
    /\ res.result.event.created_at = 0
    /\ res.result.event.updated_at = 1

\* C25 (as claimed): in the remote variant, once an authorization code has
\* been redeemed (userTokens holds what the redemption returned), the gate is
\* open: access token and refresh token are both stored, and a tools/call is
\* not answered with -32001.
C25_RedeemedIsAuthenticated ==
    (variant = "remote" /\ userTokens # EmptyObj)
    => /\ Has(userTokens, "access_token") /\ Has(userTokens, "refresh_token")
       /\ (/\ Answered /\ Has(req, "jsonrpc") /\ req.jsonrpc = "2.0"
           /\ req.method = "tools/call")
            => ~(Has(res, "error") /\ res.error.code = -32001)

\* the Calendar API calls of the remote tools
BackendCalls ==
    {"events.insert", "events.list", "events.get", "events.update", "events.delete",
     "calendarList.list"}

\* the answer of the remote server to a request that is no valid tools/call,
\* written as a function of the request alone
UngatedAnswer(r) ==
    LET ok(v) == [jsonrpc |-> "2.0", id |-> r.id, result |-> v]
        err(c, m) == [jsonrpc |-> "2.0", id |-> r.id,
                      error |-> [code |-> c, message |-> m, data |-> "null"]]
    IN IF ~(Has(r, "jsonrpc") /\ r.jsonrpc = "2.0") THEN err(-32600, "Invalid Request")
       ELSE CASE r.method = "initialize" ->
                   ok([protocolVersion |-> "2024-11-05",
                       capabilities |-> [tools |-> EmptyObj, resources |-> EmptyObj,
                                         prompts |-> EmptyObj],
                       serverInfo |-> [name |-> "google-calendar-server",
                                       version |-> "1.0.0",
                                       protocolVersion |-> "2024-11-05"]])
              [] r.method = "notifications/initialized" -> ok(EmptyObj)
              [] r.method = "tools/list" ->
                   ok([tools |-> <<"create_event", "list_events", "get_event",
                                   "update_event", "delete_event", "list_calendars",
                                   "search_events">>])
              [] OTHER -> err(-32601, "Method not found")

\* C26: in the remote variant the answer to an invalid envelope, to
\* initialize, notifications/initialized and tools/list and to an unknown
\* method is decided by the request alone, whatever tokens are stored, and
\* no function is entered; and a tools/call that has no params, no
\* arguments or names no registered tool makes no Calendar API call.
C26_OnlyToolsCallGated ==
    (Answered /\ variant = "remote")
    => /\ ~(Has(req, "jsonrpc") /\ req.jsonrpc = "2.0" /\ req.method = "tools/call")
            => res = UngatedAnswer(req) /\ calls = {}
       /\ (/\ Has(req, "jsonrpc") /\ req.jsonrpc = "2.0" /\ req.method = "tools/call"
           /\ \/ ~Has(req, "params")
              \/ ~Has(req.params, "arguments")
              \/ ~Has(req.params, "name")
              \/ req.params.name \notin
                    {"create_event", "list_events", "get_event", "update_event",
                     "delete_event", "list_calendars", "search_events"})
            => calls \cap BackendCalls = {}

\* the remote server, holding both tokens, has refused the unknown tool
\* send_invite without a Calendar API call
C26_Witness ==
    /\ Answered /\ variant = "remote"
    /\ Has(userTokens, "access_token") /\ Has(userTokens, "refresh_token")
    /\ ToolOf(req) = "send_invite"
    /\ Has(res, "error") /\ res.error.code = -32603
    /\ calls = {"isAuthenticated", "handleToolCall"}

\* C27: a tools/call with params whose name is no tool of the registry (or
\* is missing), sent to the local server or to the remote server holding
\* both tokens, is answered with error -32603 "Internal error" whose data is
\* "Unknown tool: <name>"; the store and the id generator are unchanged and
\* no Calendar API call is made.
C27_UnknownToolRejected ==
    [][(/\ Exchange
        /\ Has(req', "jsonrpc") /\ req'.jsonrpc = "2.0"
        /\ req'.method = "tools/call" /\ Has(req', "params")
        /\ \/ variant = "local"
           \/ Has(userTokens, "access_token") /\ Has(userTokens, "refresh_token")
        /\ \/ ~Has(req'.params, "name")
           \/ req'.params.name \notin
                 {"create_event", "list_events", "get_event", "update_event",
                  "delete_event", "search_events"}
                 \cup (IF variant = "remote" THEN {"list_calendars"} ELSE {}))
         => /\ Has(res', "error") /\ ~Has(res', "result")
            /\ res'.error.code = -32603
            /\ res'.error.message = "Internal error"
            /\ res'.error.data =
                  <<"Unknown tool: ",
                    IF Has(req'.params, "name") THEN req'.params.name ELSE "undefined">>
            /\ events' = events /\ issued' = issued
            /\ calls' \cap BackendCalls = {}]_vars

\* the local server has refused the unknown tool send_invite while it holds
\* an event
C27_Witness ==
    /\ Answered /\ variant = "local"
    /\ ToolOf(req) = "send_invite"
    /\ Len(events) = 1
    /\ Has(res, "error") /\ res.error.code = -32603
    /\ res.error.data = <<"Unknown tool: ", "send_invite">>

\* C28: a successful delete_event removes the one event with the requested
\* id: the store is one shorter, every other event is as it was and the
\* others keep their order, and deleted_event_id is the requested id.
C28_DeleteFrame ==
    [][(Exchange /\ ToolOf(req') = "delete_event" /\ Has(res', "result"))
         => /\ Len(events') = Len(events) - 1
            /\ \E i \in 1..Len(events) :
                  /\ events[i].id = EventIdOf(req')
                  /\ \A j \in 1..Len(events') :
                        events'[j] = IF j < i THEN events[j] ELSE events[j + 1]
            /\ \A j \in 1..Len(events') : events'[j].id # EventIdOf(req')
            /\ res'.result.deleted_event_id = EventIdOf(req')]_vars

\* the first of two events has been deleted; the second is stored
C28_Witness ==
    /\ Answered /\ ToolOf(req) = "delete_event" /\ Succeeded
    /\ EventIdOf(req) = 1
    /\ res.result.deleted_event_id = 1
    /\ Len(events) = 1
    /\ events[1].id = 2

\* C29 (as claimed): in the remote variant the stored credential only changes
\* at a callback whose redemption succeeded, and once access token and refresh
\* token are both stored no later step, a callback included, leaves the
\* server without one of them.
C29_AuthenticatedStays ==
    [][variant = "remote"
         => /\ (userTokens' # userTokens) => (Idle /\ userTokens' # EmptyObj)
            /\ (Has(userTokens, "access_token") /\ Has(userTokens, "refresh_token"))
                 => (Has(userTokens', "access_token") /\ Has(userTokens', "refresh_token"))]_vars

====
